---- MODULE Spec2Model ----
(***************************************************************************)
(* Model of the decor installer (package models): the DownloadInstallModel *)
(* state machine (checking -> prompting -> installing -> complete), the    *)
(* commands it issues, the messages they return, and the runner goroutines *)
(* that install or update one language each and report through a shared    *)
(* *LanguageProgress.                                                      *)
(*                                                                         *)
(* Strings that the code only stores and compares are TLA+ strings.  The   *)
(* version strings, which the code parses, are sequences of one-character  *)
(* strings.  A float64 progress value is the fraction <<num, den>>.        *)
(* Pointers to LanguageProgress are addresses <<origin, language>> into    *)
(* the variable heap.                                                      *)
(***************************************************************************)
EXTENDS Integers, Sequences, FiniteSets, TLC

\* ------------------------------------------------------------------ bounds

\* How many of the menu's choices (in menu order) the selection is drawn from.
MaxLangs == 2

\* ------------------------------------------------------- program constants

\* Decor.InitialModel: the menu's choices.
choices == <<"Go", "Python", "Rust", "C++", "Java">>

\* len(steps) in every ...WithProgress function, and TotalSteps of a tracker.
TotalSteps == 3

\* strings.ToLower on the identifiers the program handles.
ToLower(s) ==
    CASE s = "Go" -> "go"
      [] s = "Python" -> "python"
      [] s = "Rust" -> "rust"
      [] s = "C++" -> "c++"
      [] s = "Java" -> "java"
      [] OTHER -> s

\* The languages that checkLanguageInstallation, installLanguageWithProgress
\* and updateLanguageWithProgress have a case for.
Supported == {"go", "python", "rust", "c++", "java"}

\* ------------------------------------------------------------ sequences

Range(s) == {s[i] : i \in 1..Len(s)}

NoDup(s) == \A i, j \in 1..Len(s) : i # j => s[i] # s[j]

\* All duplicate-free sequences over S of length n.
RECURSIVE SeqsOfLen(_, _)
SeqsOfLen(S, n) ==
    IF n = 0 THEN {<<>>}
    ELSE {Append(s, x) : s \in SeqsOfLen(S, n - 1), x \in S}

Perms(S) == {s \in SeqsOfLen(S, Cardinality(S)) : NoDup(s)}

\* A Go map: a function on a finite set of keys.
EmptyMap == [x \in {} |-> x]

MapSet(m, k, v) == [x \in DOMAIN m \cup {k} |-> IF x = k THEN v ELSE m[x]]

\* m[k] of a map[string]string: the zero value "" for a missing key.
MapGetStr(m, k) == IF k \in DOMAIN m THEN m[k] ELSE ""

\* ---------------------------------------------------------------- versions

Whitespace == {" ", "\t", "\n", "\r"}

RECURSIVE TrimLeft(_)
TrimLeft(s) ==
    IF s # <<>> /\ Head(s) \in Whitespace THEN TrimLeft(Tail(s)) ELSE s

RECURSIVE TrimRight(_)
TrimRight(s) ==
    IF s # <<>> /\ s[Len(s)] \in Whitespace
    THEN TrimRight(SubSeq(s, 1, Len(s) - 1))
    ELSE s

\* strings.TrimSpace
TrimSpace(s) == TrimRight(TrimLeft(s))

\* strings.Split(output, "\n")[0]: Split always returns at least one element.
RECURSIVE FirstLine(_)
FirstLine(s) ==
    IF s = <<>> \/ Head(s) = "\n" THEN <<>>
    ELSE <<Head(s)>> \o FirstLine(Tail(s))

\* parseVersion: the first line of the output, trimmed.
parseVersion(output) == TrimSpace(FirstLine(output))

\* getLatestVersion: the static table, "" for a language it does not hold.
getLatestVersion(language) ==
    LET l == ToLower(language) IN
    CASE l = "go" -> <<"1", ".", "2", "5", ".", "5">>
      [] l = "python" -> <<"3", ".", "1", "3", ".", "0">>
      [] l = "rust" -> <<"1", ".", "8", "1", ".", "0">>
      [] l = "c++" -> <<"1", "4">>
      [] l = "java" -> <<"2", "1">>
      [] OTHER -> <<>>

\* What the detection command of a language may print when it succeeds: the
\* latest version on a line of its own, or an older one followed by more text.
ProbeOutputs(language) ==
    { getLatestVersion(language) \o <<"\n">>,
      <<" ", "1", ".", "2", "0", " ", "\n", "x">> }

\* The outcome of cmd.CombinedOutput(): an error, or the output.
ProbeResults(language) ==
    {[err |-> TRUE, output |-> <<>>]}
        \cup {[err |-> FALSE, output |-> o] : o \in ProbeOutputs(language)}

\* checkLanguageInstallation looking up the latest version before it runs the
\* command, and returning it when the command fails.
checkLanguageInstallationKeepsLatest(language, r) ==
    IF ToLower(language) \notin Supported
    THEN [Installed |-> FALSE, Version |-> <<>>, LatestVersion |-> <<>>]
    ELSE IF r.err
    THEN [Installed |-> FALSE, Version |-> <<>>,
          LatestVersion |-> getLatestVersion(language)]
    ELSE [Installed |-> TRUE, Version |-> parseVersion(r.output),
          LatestVersion |-> getLatestVersion(language)]

\* checkLanguageInstallation, given what the detection command did.
checkLanguageInstallation(language, r) ==
    IF ToLower(language) \notin Supported \/ r.err
    THEN [Installed |-> FALSE, Version |-> <<>>, LatestVersion |-> <<>>]
    ELSE [Installed |-> TRUE, Version |-> parseVersion(r.output),
          LatestVersion |-> getLatestVersion(language)]

\* The *InstallationStatus checkInstalledLanguages builds for one language.
NewStatus(language, r) ==
    LET c == checkLanguageInstallation(language, r) IN
    [Language |-> language, Installed |-> c.Installed, Version |-> c.Version,
     LatestVersion |-> c.LatestVersion, Error |-> ""]

\* getDefaultChoice with the version comparison inverted.
getDefaultChoiceInverted(status) ==
    IF ~status.Installed THEN "install"
    ELSE IF status.Version = status.LatestVersion THEN "update"
    ELSE "skip"

\* getDefaultChoice
getDefaultChoice(status) ==
    IF ~status.Installed THEN "install"
    ELSE IF status.Version # status.LatestVersion THEN "update"
    ELSE "skip"

\* ------------------------------------------------------------- progress

\* A float64 progress value as a fraction.
Frac(n, d) == <<n, d>>

FracLt(a, b) == a[1] * b[2] < b[1] * a[2]

Zero == Frac(0, 1)

One == Frac(1, 1)

\* Formatted text (an error's message, a value of the results map) is the
\* sequence of the pieces it is formatted from; "" and a nil error are <<>>.
NoError == <<>>

\* &LanguageProgress{Language: lang, Progress: 0.0, CurrentStep: "starting",
\* TotalSteps: 3}
NewLanguageProgress(lang) ==
    [Language |-> lang, Progress |-> Zero, CurrentStep |-> "starting",
     TotalSteps |-> TotalSteps, CurrentStepNum |-> 0, ErrorMessage |-> NoError]

\* The steps slice of each install...WithProgress function.
InstallSteps(l) ==
    CASE l = "go" ->
           <<"Downloading Go...", "Extracting files...", "Verifying installation...">>
      [] l = "python" ->
           <<"Preparing installation...", "Installing Python...", "Verifying installation...">>
      [] l = "rust" ->
           <<"Downloading Rust installer...", "Running installation script...",
             "Configuring environment...">>
      [] l = "c++" ->
           <<"Preparing installation...", "Installing C++ compiler...",
             "Setting up environment...">>
      [] l = "java" ->
           <<"Preparing installation...", "Installing OpenJDK...",
             "Setting up environment...">>

\* The steps slice of each update...WithProgress function.
UpdateSteps(l) ==
    CASE l = "go" ->
           <<"Checking latest version...", "Downloading Go...", "Installing update...">>
      [] l = "python" ->
           <<"Fetching available updates...", "Upgrading Python...", "Verifying update...">>
      [] l = "rust" ->
           <<"Checking for updates...", "Updating Rust...", "Verifying update...">>
      [] l = "c++" ->
           <<"Checking for system updates...", "Installing updates...", "Verifying...">>
      [] l = "java" ->
           <<"Fetching available updates...", "Upgrading OpenJDK...", "Verifying update...">>

StepsOf(fn, l) == IF fn = "install" THEN InstallSteps(l) ELSE UpdateSteps(l)

\* The CurrentStep each function writes together with Progress = 1.0, after
\* its loop and before its command.
InstallFinalLabel(l) ==
    CASE l = "go" -> "Verifying installation..."
      [] l = "python" -> "Verifying installation..."
      [] l = "rust" -> "Configuring environment..."
      [] l = "c++" -> "Setting up environment..."
      [] l = "java" -> "Setting up environment..."

UpdateFinalLabel(l) ==
    CASE l = "go" -> "Installing update..."
      [] l = "python" -> "Verifying update..."
      [] l = "rust" -> "Verifying update..."
      [] l = "c++" -> "Verifying..."
      [] l = "java" -> "Verifying update..."

FinalLabel(fn, l) == IF fn = "install" THEN InstallFinalLabel(l) ELSE UpdateFinalLabel(l)

\* The value the loop writes to Progress before step i (i counted from 0):
\* float64(i) / float64(len(steps)).
LoopProgress(i, steps) == Frac(i, Len(steps))

\* The value written to Progress after the loop, before the command is run.
AfterLoopProgress == One

\* Every update function falling back to the install function.
DelegatesAll(fn, l) == fn = "update"

\* What a ...WithProgress function does once its loop and its last locked
\* write are done: updateGoWithProgress returns installGoWithProgress(progress),
\* every other function runs its own external command.
Delegates(fn, l) == fn = "update" /\ l = "go"

\* The errors an external command may return from cmd.Run().
CommandErrors == {<<"exit status 1">>}

\* fmt.Errorf("unsupported language: %s", language)
Unsupported(language) == <<"unsupported language: ", language>>

\* The goroutine of one language, from its launch.  pc is the place in the
\* code: "loop" (about to run iteration i of fn's loop), "final" (about to
\* write Progress = 1.0), "exec" (about to run the command, or to delegate),
\* "returned" (the ...WithProgress call returned err), "writes" (the plain
\* writes to the tracker are being made), "done".
\* installLanguageWithProgress / updateLanguageWithProgress dispatch on the
\* lower-cased name and return an error at once for a name they do not know;
\* a choice that is neither "install" nor "update" matches no case.
NewRunner(language, choiceType) ==
    IF choiceType \notin {"install", "update"}
    THEN [choiceType |-> choiceType, fn |-> choiceType, pc |-> "done", i |-> 0,
          err |-> NoError, writes |-> {}]
    ELSE IF ToLower(language) \notin Supported
    THEN [choiceType |-> choiceType, fn |-> choiceType, pc |-> "returned", i |-> 0,
          err |-> Unsupported(language), writes |-> {}]
    ELSE [choiceType |-> choiceType, fn |-> choiceType, pc |-> "loop", i |-> 0,
          err |-> NoError, writes |-> {}]

\* The value the goroutine stores in results[language].
ResultOf(choiceType, err) ==
    IF err # NoError THEN <<"error: ">> \o err
    ELSE IF choiceType = "install" THEN <<"installed">> ELSE <<"updated">>

\* The plain (unlocked) writes the goroutine makes to its tracker once the
\* call has returned: the field and the value written.
FinalWrites(err) ==
    IF err # NoError
    THEN {[field |-> "CurrentStep", error |-> TRUE],
          [field |-> "ErrorMessage", error |-> TRUE]}
    ELSE {[field |-> "CurrentStep", error |-> FALSE],
          [field |-> "Progress", error |-> FALSE]}

\* The tracker after one of those writes.
ApplyWrite(t, w, err) ==
    CASE w.field = "CurrentStep" ->
           [t EXCEPT !.CurrentStep = IF w.error THEN "error" ELSE "complete"]
      [] w.field = "ErrorMessage" -> [t EXCEPT !.ErrorMessage = err]
      [] w.field = "Progress" -> [t EXCEPT !.Progress = One]

\* ---------------------------------------------------------------- state

VARIABLES
    selectedLanguages,   \* DownloadInstallModel.selectedLanguages
    installationStatus,  \* DownloadInstallModel.installationStatus
    currentIndex,        \* DownloadInstallModel.currentIndex (counted from 0)
    state,               \* DownloadInstallModel.state
    userChoices,         \* DownloadInstallModel.userChoices
    languageProgress,    \* DownloadInstallModel.languageProgress: language -> address
    heap,                \* the LanguageProgress values, by address
    cmds,                \* commands returned by Init/Update that have not run yet
    statusMsgs,          \* InstallationStatusMsg values not yet delivered
    initMsgs,            \* InitProgressMsg values not yet delivered
    tickMsgs,            \* number of ProgressTickMsg scheduled and not yet delivered
    progressTrackers,    \* the install command's progressTrackers map
    results,             \* the background goroutine's results map
    runners,             \* the runner goroutines, by language
    proc,                \* the process: "running", "quit", "panic", "fatal"
    cursor,              \* Decor.cursor of the menu
    Selected,            \* Decor.Selected of the menu: the selected indices
    activeModel,         \* MainModel.activeModel: "menu" (a Decor) or "install"
    models,              \* MainModel.models, as the kinds of the screens
    currentModelIdx      \* MainModel.currentModelIdx

vars ==
    <<selectedLanguages, installationStatus, currentIndex, state, userChoices,
      languageProgress, heap, cmds, statusMsgs, initMsgs, tickMsgs,
      progressTrackers, results, runners, proc,
      cursor, Selected, activeModel, models, currentModelIdx>>

mainVars == <<cursor, Selected, activeModel, models, currentModelIdx>>

modelVars ==
    <<selectedLanguages, installationStatus, currentIndex, state, userChoices>>

runnerVars == <<progressTrackers, results, runners>>

msgVars == <<cmds, statusMsgs, initMsgs, tickMsgs>>

\* The selections Decor.Selections() can hand over: it ranges over the map of
\* selected indices, so any order of any subset of the choices.
Selectable == {choices[i] : i \in 1..MaxLangs}

Selections == UNION {Perms(S) : S \in SUBSET Selectable}

\* The install screen run as the program's model, with no menu before it.
Standalone ==
    /\ cursor = 0
    /\ Selected = {}
    /\ activeModel = "install"
    /\ models = <<"install">>
    /\ currentModelIdx = 0

\* NewDownloadInstallModel(selectedLanguages), and the command its Init returns.
Init ==
    /\ selectedLanguages \in Selections
    /\ installationStatus = EmptyMap
    /\ currentIndex = 0
    /\ state = "checking"
    /\ userChoices = EmptyMap
    /\ languageProgress = EmptyMap
    /\ heap = EmptyMap
    /\ cmds = {"check"}
    /\ statusMsgs = {}
    /\ initMsgs = {}
    /\ tickMsgs = 0
    /\ progressTrackers = EmptyMap
    /\ results = EmptyMap
    /\ runners = EmptyMap
    /\ proc = "running"
    /\ Standalone

Running == proc = "running"

\* ----------------------------------------------------------------- View
\* The runtime renders the model after every Update.  View changes nothing
\* except in state "installing", where renderInstallationProgress stores a
\* fresh tracker in the model's map for every non-skipped language it does
\* not find there.

\* A View that stores no tracker.
ViewMissingNone(st, ch, lp) == {}

ViewMissing(st, ch, lp) ==
    IF st = "installing"
    THEN {l \in Range(selectedLanguages) : MapGetStr(ch, l) # "skip" /\ l \notin DOMAIN lp}
    ELSE {}

ViewProgress(st, ch, lp) ==
    [l \in DOMAIN lp \cup ViewMissing(st, ch, lp) |->
        IF l \in DOMAIN lp THEN lp[l] ELSE <<"view", l>>]

ViewHeap(st, ch, lp, hp) ==
    [a \in DOMAIN hp \cup {<<"view", l>> : l \in ViewMissing(st, ch, lp)} |->
        IF a \in DOMAIN hp THEN hp[a] ELSE NewLanguageProgress(a[2])]

\* Update returned the model with state st, choices ch and tracker map lp:
\* the model and the heap after the View that follows.
Render(st, ch, lp) ==
    /\ languageProgress' = ViewProgress(st, ch, lp)
    /\ heap' = ViewHeap(st, ch, lp, heap)

\* What View returns in state "complete": one line "lang: result" for every
\* entry of userChoices.
ViewComplete == [l \in DOMAIN userChoices |-> userChoices[l]]

\* ------------------------------------------------------- Update: the keys

\* A quit that is honoured only once no runner is in flight.
UpdateKeyQuitWaits ==
    /\ Running
    /\ \A l \in DOMAIN runners : runners[l].pc = "done"
    /\ proc' = "quit"
    /\ Render(state, userChoices, languageProgress)
    /\ UNCHANGED mainVars
    /\ UNCHANGED <<modelVars, msgVars, runnerVars>>

\* case "ctrl+c", "q": return m, tea.Quit
UpdateKeyQuit ==
    /\ Running
    /\ proc' = "quit"
    /\ Render(state, userChoices, languageProgress)
    /\ UNCHANGED mainVars
    /\ UNCHANGED <<modelVars, msgVars, runnerVars>>

\* m.currentIndex++
NextIndex(i) == i + 1

\* if m.currentIndex >= len(m.selectedLanguages) { m.state = "installing" ... }
AfterDecision(i, st) == IF i >= Len(selectedLanguages) THEN "installing" ELSE st

\* The shared body with the install command returned after every decision,
\* not only after the last.
DecideAlwaysInstalls(lang, choice) ==
    LET idx == NextIndex(currentIndex)
        st == AfterDecision(idx, state)
        ch == MapSet(userChoices, lang, choice)
    IN  /\ userChoices' = ch
        /\ currentIndex' = idx
        /\ state' = st
        /\ cmds' = cmds \cup {"install"}
        /\ tickMsgs' = IF st = "installing" THEN tickMsgs + 1 ELSE tickMsgs
        /\ Render(st, ch, languageProgress)
        /\ UNCHANGED mainVars
        /\ UNCHANGED <<selectedLanguages, installationStatus, statusMsgs, initMsgs,
                       runnerVars, proc>>

\* The body the three decision keys share, for the choice the key stands for:
\* record it for the language at the cursor, advance, and when the cursor has
\* passed the last language change to "installing" and return
\* installSelectedLanguagesWithProgress (a batch of the install command and a
\* ticker).
Decide(lang, choice) ==
    LET idx == NextIndex(currentIndex)
        st == AfterDecision(idx, state)
        ch == MapSet(userChoices, lang, choice)
    IN  /\ userChoices' = ch
        /\ currentIndex' = idx
        /\ state' = st
        /\ cmds' = IF st = "installing" THEN cmds \cup {"install"} ELSE cmds
        /\ tickMsgs' = IF st = "installing" THEN tickMsgs + 1 ELSE tickMsgs
        /\ Render(st, ch, languageProgress)
        /\ UNCHANGED mainVars
        /\ UNCHANGED <<selectedLanguages, installationStatus, statusMsgs, initMsgs,
                       runnerVars, proc>>

\* A key that Update handles without changing the model.
Ignore ==
    /\ Render(state, userChoices, languageProgress)
    /\ UNCHANGED mainVars
    /\ UNCHANGED <<modelVars, msgVars, runnerVars, proc>>

\* m.selectedLanguages[m.currentIndex] with the index out of range, or a nil
\* *InstallationStatus dereferenced: the runtime panics and the process ends.
Panic ==
    /\ proc' = "panic"
    /\ UNCHANGED mainVars
    /\ UNCHANGED <<modelVars, languageProgress, heap, msgVars, runnerVars>>

InRange == currentIndex < Len(selectedLanguages)

Current == selectedLanguages[currentIndex + 1]

\* case "y", "enter"
UpdateKeyDefault ==
    /\ Running
    /\ IF state # "prompting" THEN Ignore
       ELSE IF ~InRange \/ Current \notin DOMAIN installationStatus THEN Panic
       ELSE Decide(Current, getDefaultChoice(installationStatus[Current]))

\* The n key without the test of the state.
UpdateKeySkipUnguarded ==
    /\ Running
    /\ IF ~InRange THEN Panic
       ELSE Decide(Current, "skip")

\* case "n"
UpdateKeySkip ==
    /\ Running
    /\ IF state # "prompting" THEN Ignore
       ELSE IF ~InRange THEN Panic
       ELSE Decide(Current, "skip")

\* case "u"
UpdateKeyUpdate ==
    /\ Running
    /\ IF state # "prompting" THEN Ignore
       ELSE IF ~InRange THEN Panic
       ELSE Decide(Current, "update")

\* ---------------------------------------------------- the check command

\* checkInstalledLanguages: probe every language in turn, return the statuses.
CheckInstalledLanguages ==
    /\ Running
    /\ "check" \in cmds
    /\ \E r \in [Range(selectedLanguages) ->
                 UNION {ProbeResults(l) : l \in Range(selectedLanguages)}] :
          /\ \A l \in Range(selectedLanguages) : r[l] \in ProbeResults(l)
          /\ statusMsgs' = statusMsgs \cup
                {[Status |-> [l \in Range(selectedLanguages) |-> NewStatus(l, r[l])]]}
    /\ cmds' = cmds \ {"check"}
    /\ UNCHANGED mainVars
    /\ UNCHANGED <<modelVars, languageProgress, heap, initMsgs, tickMsgs, runnerVars, proc>>

\* case InstallationStatusMsg
UpdateInstallationStatusMsg ==
    /\ Running
    /\ \E msg \in statusMsgs :
          /\ statusMsgs' = statusMsgs \ {msg}
          /\ installationStatus' = msg.Status
    /\ state' = "prompting"
    /\ Render("prompting", userChoices, languageProgress)
    /\ UNCHANGED mainVars
    /\ UNCHANGED <<selectedLanguages, currentIndex, userChoices, cmds, initMsgs,
                   tickMsgs, runnerVars, proc>>

\* -------------------------------------------------- the install command

\* A tracker for every language, the skipped ones too.
NotSkippedAll == Range(selectedLanguages)

\* The languages the install command makes a tracker and a goroutine for.
NotSkipped == {l \in Range(selectedLanguages) : MapGetStr(userChoices, l) # "skip"}

\* The first function of the batch installSelectedLanguagesWithProgress
\* returns: make a tracker for every non-skipped language, start the
\* background goroutine, which records "skipped" for the others and launches
\* one goroutine per tracker, and return InitProgressMsg with the trackers.
InstallSelectedLanguages ==
    /\ Running
    /\ "install" \in cmds
    /\ cmds' = cmds \ {"install"}
    /\ progressTrackers' = [l \in NotSkipped |-> <<"cmd", l>>]
    /\ heap' = [a \in DOMAIN heap \cup {<<"cmd", l>> : l \in NotSkipped} |->
                  IF a[1] = "cmd" THEN NewLanguageProgress(a[2]) ELSE heap[a]]
    /\ results' = [l \in Range(selectedLanguages) \ NotSkipped |-> <<"skipped">>]
    /\ runners' = [l \in NotSkipped |-> NewRunner(l, MapGetStr(userChoices, l))]
    /\ initMsgs' = initMsgs \cup {[Trackers |-> progressTrackers']}
    /\ UNCHANGED mainVars
    /\ UNCHANGED <<modelVars, languageProgress, statusMsgs, tickMsgs, proc>>

\* case InitProgressMsg: m.languageProgress = msg.Trackers; return m,
\* progressUpdateTicker()
UpdateInitProgressMsg ==
    /\ Running
    /\ \E msg \in initMsgs :
          /\ initMsgs' = initMsgs \ {msg}
          /\ Render(state, userChoices, msg.Trackers)
    /\ tickMsgs' = tickMsgs + 1
    /\ UNCHANGED mainVars
    /\ UNCHANGED <<modelVars, cmds, statusMsgs, runnerVars, proc>>

\* The test the tick makes on one tracker, under its lock.
StillInstalling(t) == FracLt(t.Progress, One) /\ t.CurrentStep # "error"

\* allComplete after the tick's loop over m.languageProgress.
AllComplete(lp, hp) == \A l \in DOMAIN lp : ~StillInstalling(hp[lp[l]])

\* A tick that writes the state on both branches.
TickStateBothBranches(allComplete, st) == IF allComplete THEN "complete" ELSE "installing"

\* if allComplete { m.state = "complete" }
TickState(allComplete, st) == IF allComplete THEN "complete" ELSE st

\* A tick that never schedules the next one.
TickReschedulesNever(allComplete) == FALSE

\* A tick that always schedules the next one.
TickReschedulesAlways(allComplete) == TRUE

\* if allComplete { return m, nil }; return m, progressUpdateTicker()
TickReschedules(allComplete) == ~allComplete

\* case ProgressTickMsg
UpdateProgressTickMsg ==
    /\ Running
    /\ tickMsgs > 0
    /\ LET allComplete == AllComplete(languageProgress, heap) IN
          /\ state' = TickState(allComplete, state)
          /\ tickMsgs' = IF TickReschedules(allComplete) THEN tickMsgs ELSE tickMsgs - 1
          /\ Render(state', userChoices, languageProgress)
    /\ UNCHANGED mainVars
    /\ UNCHANGED <<selectedLanguages, installationStatus, currentIndex, userChoices,
                   cmds, statusMsgs, initMsgs, runnerVars, proc>>

\* ------------------------------------------------------------ the runners

Tracker(l) == heap[progressTrackers[l]]

SetTracker(l, t) == heap' = [heap EXCEPT ![progressTrackers[l]] = t]

\* One iteration of the loop of a ...WithProgress function: under the lock,
\* Progress = i/len(steps) and CurrentStep = steps[i].
RunnerLoop(l) ==
    /\ Running
    /\ runners[l].pc = "loop"
    /\ LET r == runners[l]
           steps == StepsOf(r.fn, ToLower(l))
       IN  /\ SetTracker(l, [Tracker(l) EXCEPT
                               !.Progress = LoopProgress(r.i, steps),
                               !.CurrentStep = steps[r.i + 1]])
           /\ runners' = [runners EXCEPT
                            ![l].i = r.i + 1,
                            ![l].pc = IF r.i + 1 < Len(steps) THEN "loop" ELSE "final"]
    /\ UNCHANGED mainVars
    /\ UNCHANGED <<modelVars, languageProgress, msgVars, progressTrackers, results, proc>>

\* After the loop: under the lock, Progress = 1.0 and CurrentStep = the label.
RunnerFinal(l) ==
    /\ Running
    /\ runners[l].pc = "final"
    /\ SetTracker(l, [Tracker(l) EXCEPT
                        !.Progress = AfterLoopProgress,
                        !.CurrentStep = FinalLabel(runners[l].fn, ToLower(l))])
    /\ runners' = [runners EXCEPT ![l].pc = "exec"]
    /\ UNCHANGED mainVars
    /\ UNCHANGED <<modelVars, languageProgress, msgVars, progressTrackers, results, proc>>

\* updateGoWithProgress: return installGoWithProgress(progress).
RunnerDelegate(l) ==
    /\ Running
    /\ runners[l].pc = "exec"
    /\ Delegates(runners[l].fn, ToLower(l))
    /\ runners' = [runners EXCEPT ![l].fn = "install", ![l].pc = "loop", ![l].i = 0]
    /\ UNCHANGED mainVars
    /\ UNCHANGED <<modelVars, languageProgress, heap, msgVars, progressTrackers,
                   results, proc>>

\* return cmd.Run(): the external command ends, with an error or without.
RunnerExec(l) ==
    /\ Running
    /\ runners[l].pc = "exec"
    /\ ~Delegates(runners[l].fn, ToLower(l))
    /\ \E err \in {NoError} \cup CommandErrors :
          runners' = [runners EXCEPT ![l].pc = "returned", ![l].err = err]
    /\ UNCHANGED mainVars
    /\ UNCHANGED <<modelVars, languageProgress, heap, msgVars, progressTrackers,
                   results, proc>>

\* The goroutine, after the call returned: results[language] = ...
RunnerRecord(l) ==
    /\ Running
    /\ runners[l].pc = "returned"
    /\ results' = MapSet(results, l, ResultOf(runners[l].choiceType, runners[l].err))
    /\ runners' = [runners EXCEPT ![l].pc = "writes",
                                  ![l].writes = FinalWrites(runners[l].err)]
    /\ UNCHANGED mainVars
    /\ UNCHANGED <<modelVars, languageProgress, heap, msgVars, progressTrackers, proc>>

\* Two goroutines are both at their write to the results map, which nothing
\* synchronises: the runtime may detect it ("fatal error: concurrent map
\* writes") and end the process.
ConcurrentMapWrites ==
    /\ Running
    /\ \E l1, l2 \in DOMAIN runners :
          l1 # l2 /\ runners[l1].pc = "returned" /\ runners[l2].pc = "returned"
    /\ proc' = "fatal"
    /\ UNCHANGED mainVars
    /\ UNCHANGED <<modelVars, languageProgress, heap, msgVars, runnerVars>>

\* The goroutine's writes to its tracker, made without the lock: another
\* goroutine may see them in either order.
RunnerWrite(l) ==
    /\ Running
    /\ runners[l].pc = "writes"
    /\ \E w \in runners[l].writes :
          /\ SetTracker(l, ApplyWrite(Tracker(l), w, runners[l].err))
          /\ runners' = [runners EXCEPT
                           ![l].writes = @ \ {w},
                           ![l].pc = IF runners[l].writes = {w} THEN "done" ELSE "writes"]
    /\ UNCHANGED mainVars
    /\ UNCHANGED <<modelVars, languageProgress, msgVars, progressTrackers, results, proc>>

RunnerStep ==
    \E l \in DOMAIN runners :
        \/ RunnerLoop(l)
        \/ RunnerFinal(l)
        \/ RunnerDelegate(l)
        \/ RunnerExec(l)
        \/ RunnerRecord(l)
        \/ RunnerWrite(l)

\* ------------------------------------------------------- specification

Next ==
    \/ UpdateKeyQuit
    \/ UpdateKeyDefault
    \/ UpdateKeySkip
    \/ UpdateKeyUpdate
    \/ CheckInstalledLanguages
    \/ UpdateInstallationStatusMsg
    \/ InstallSelectedLanguages
    \/ UpdateInitProgressMsg
    \/ UpdateProgressTickMsg
    \/ RunnerStep
    \/ ConcurrentMapWrites

Spec == Init /\ [][Next]_vars

\* The scheduling the runtime gives: a command that was returned runs, a
\* message that was sent is delivered, a goroutine that can take a step takes
\* it.  Keys are the user's: nothing obliges them.
Fairness ==
    /\ WF_vars(CheckInstalledLanguages)
    /\ WF_vars(UpdateInstallationStatusMsg)
    /\ WF_vars(InstallSelectedLanguages)
    /\ WF_vars(UpdateInitProgressMsg)
    /\ WF_vars(UpdateProgressTickMsg)
    /\ \A l \in Selectable :
          WF_vars(l \in DOMAIN runners /\
                  (RunnerLoop(l) \/ RunnerFinal(l) \/ RunnerDelegate(l) \/ RunnerExec(l)
                     \/ RunnerRecord(l) \/ RunnerWrite(l)))

FairSpec == Spec /\ Fairness

\* NewDownloadInstallModel takes any []string: a name that no dispatcher has
\* a case for.
OtherLanguage == "Zig"

\* The selections a caller can construct the model with, over one of the
\* menu's languages and one that is not the menu's.
SelectionsAny == UNION {Perms(S) : S \in SUBSET {choices[1], OtherLanguage}}

\* NewDownloadInstallModel(selectedLanguages) for such a selection.
InitAny ==
    /\ selectedLanguages \in SelectionsAny
    /\ installationStatus = EmptyMap
    /\ currentIndex = 0
    /\ state = "checking"
    /\ userChoices = EmptyMap
    /\ languageProgress = EmptyMap
    /\ heap = EmptyMap
    /\ cmds = {"check"}
    /\ statusMsgs = {}
    /\ initMsgs = {}
    /\ tickMsgs = 0
    /\ progressTrackers = EmptyMap
    /\ results = EmptyMap
    /\ runners = EmptyMap
    /\ proc = "running"
    /\ Standalone

SpecAny == InitAny /\ [][Next]_vars

\* ------------------------------------ messages that the code does not send
\* Update has a case for ProgressUpdateMsg, and takes an InstallationStatusMsg
\* from whoever sends it; nothing in the package sends the first, and only
\* checkInstalledLanguages sends the second.  The specification SpecMsg adds
\* a sender of both.

\* How many ticks may be pending at once.
MaxTicks == 3

\* The ProgressUpdateMsg values that are sent.
ProgressUpdateMsgs ==
    {[Language |-> l, Progress |-> p, Step |-> "Working..."] :
        l \in Selectable, p \in {Frac(1, 2), One}}

\* The ProgressUpdateMsg case that also enters complete on progress 1.0.
HandleProgressUpdateMsgCompletes(msg) ==
    /\ Running
    /\ tickMsgs < MaxTicks
    /\ LET tracked == msg.Language \in DOMAIN languageProgress
           hp == IF tracked
                 THEN [heap EXCEPT ![languageProgress[msg.Language]] =
                          [@ EXCEPT !.Progress = msg.Progress, !.CurrentStep = msg.Step]]
                 ELSE heap
           st == IF msg.Progress = One THEN "complete" ELSE state
       IN  /\ state' = st
           /\ languageProgress' = ViewProgress(st, userChoices, languageProgress)
           /\ heap' = ViewHeap(st, userChoices, languageProgress, hp)
    /\ tickMsgs' = tickMsgs + 1
    /\ UNCHANGED mainVars
    /\ UNCHANGED <<selectedLanguages, installationStatus, currentIndex, userChoices,
                   cmds, statusMsgs, initMsgs, runnerVars, proc>>

\* case ProgressUpdateMsg: under the lock, set Progress and CurrentStep of
\* the tracker of msg.Language if the model has one; return m,
\* progressUpdateTicker() either way.
HandleProgressUpdateMsg(msg) ==
    /\ Running
    /\ tickMsgs < MaxTicks
    /\ LET tracked == msg.Language \in DOMAIN languageProgress
           hp == IF tracked
                 THEN [heap EXCEPT ![languageProgress[msg.Language]] =
                          [@ EXCEPT !.Progress = msg.Progress, !.CurrentStep = msg.Step]]
                 ELSE heap
       IN  /\ languageProgress' = ViewProgress(state, userChoices, languageProgress)
           /\ heap' = ViewHeap(state, userChoices, languageProgress, hp)
    /\ tickMsgs' = tickMsgs + 1
    /\ UNCHANGED mainVars
    /\ UNCHANGED <<modelVars, cmds, statusMsgs, initMsgs, runnerVars, proc>>

UpdateProgressUpdateMsg == \E msg \in ProgressUpdateMsgs : HandleProgressUpdateMsg(msg)

\* case InstallationStatusMsg, for a message that another sender delivers
\* while the check command is still at work: its Status holds a not-found
\* status for some of the selected languages only.
UpdateInstallationStatusMsgAny ==
    /\ Running
    /\ state = "checking"
    /\ \E S \in SUBSET Range(selectedLanguages) :
          /\ S # Range(selectedLanguages)
          /\ installationStatus' =
                [l \in S |-> NewStatus(l, [err |-> TRUE, output |-> <<>>])]
    /\ state' = "prompting"
    /\ Render("prompting", userChoices, languageProgress)
    /\ UNCHANGED mainVars
    /\ UNCHANGED <<selectedLanguages, currentIndex, userChoices, msgVars, runnerVars, proc>>

\* NewDownloadInstallModel(selectedLanguages) for a selection of at most the
\* first of the menu's languages.
InitMsg ==
    /\ selectedLanguages \in UNION {Perms(S) : S \in SUBSET {choices[1]}}
    /\ installationStatus = EmptyMap
    /\ currentIndex = 0
    /\ state = "checking"
    /\ userChoices = EmptyMap
    /\ languageProgress = EmptyMap
    /\ heap = EmptyMap
    /\ cmds = {"check"}
    /\ statusMsgs = {}
    /\ initMsgs = {}
    /\ tickMsgs = 0
    /\ progressTrackers = EmptyMap
    /\ results = EmptyMap
    /\ runners = EmptyMap
    /\ proc = "running"
    /\ Standalone

\* The steps of the install screen with one runner at most: no two
\* goroutines write the results map.
NextOne ==
    \/ UpdateKeyQuit
    \/ UpdateKeyDefault
    \/ UpdateKeySkip
    \/ UpdateKeyUpdate
    \/ CheckInstalledLanguages
    \/ UpdateInstallationStatusMsg
    \/ InstallSelectedLanguages
    \/ UpdateInitProgressMsg
    \/ UpdateProgressTickMsg
    \/ RunnerStep

NextMsg ==
    \/ NextOne
    \/ UpdateProgressUpdateMsg
    \/ UpdateInstallationStatusMsgAny

SpecMsg == InitMsg /\ [][NextMsg]_vars

\* NewDownloadInstallModel(selectedLanguages) for a selection of any one of
\* the menu's languages.
InitEach ==
    /\ selectedLanguages \in {<<choices[i]>> : i \in 1..Len(choices)}
    /\ installationStatus = EmptyMap
    /\ currentIndex = 0
    /\ state = "checking"
    /\ userChoices = EmptyMap
    /\ languageProgress = EmptyMap
    /\ heap = EmptyMap
    /\ cmds = {"check"}
    /\ statusMsgs = {}
    /\ initMsgs = {}
    /\ tickMsgs = 0
    /\ progressTrackers = EmptyMap
    /\ results = EmptyMap
    /\ runners = EmptyMap
    /\ proc = "running"
    /\ Standalone

\* The install screen for each of the five languages on its own.
SpecEach == InitEach /\ [][NextOne]_vars

\* ------------------------------------------------ the menu and MainModel
\* main runs MainModel, whose first screen is the menu (a Decor); the key n
\* on the menu makes the install screen from the menu's selection.  Every
\* key but q and n, and every message, goes to the active screen.

\* The zero DownloadInstallModel: no install screen has been made yet.
NoScreen ==
    /\ selectedLanguages = <<>>
    /\ installationStatus = EmptyMap
    /\ currentIndex = 0
    /\ state = ""
    /\ userChoices = EmptyMap
    /\ languageProgress = EmptyMap
    /\ heap = EmptyMap
    /\ cmds = {}
    /\ statusMsgs = {}
    /\ initMsgs = {}
    /\ tickMsgs = 0
    /\ progressTrackers = EmptyMap
    /\ results = EmptyMap
    /\ runners = EmptyMap

\* MainModel{}.InitialModel(), with Decor.InitialModel() as its only screen.
InitMain ==
    /\ NoScreen
    /\ proc = "running"
    /\ cursor = 0
    /\ Selected = {}
    /\ activeModel = "menu"
    /\ models = <<"menu">>
    /\ currentModelIdx = 0

installVars ==
    <<selectedLanguages, installationStatus, currentIndex, state, userChoices,
      languageProgress, heap, cmds, statusMsgs, initMsgs, tickMsgs,
      progressTrackers, results, runners>>

\* Decor.Update, case "up", "k"
MenuUp ==
    /\ Running
    /\ activeModel = "menu"
    /\ cursor' = IF cursor > 0 THEN cursor - 1 ELSE cursor
    /\ UNCHANGED <<Selected, activeModel, models, currentModelIdx, installVars, proc>>

\* Decor.Update, case "down", "j"
MenuDown ==
    /\ Running
    /\ activeModel = "menu"
    /\ cursor' = IF cursor < Len(choices) - 1 THEN cursor + 1 ELSE cursor
    /\ UNCHANGED <<Selected, activeModel, models, currentModelIdx, installVars, proc>>

\* The down key while the cursor is above the last of the first MaxLangs
\* choices.
MenuDownFirst == cursor < MaxLangs - 1 /\ MenuDown

\* A toggle that only ever selects.
ToggleSelects(sel, c) == sel \cup {c}

\* case "enter", " ": delete the cursor's index from Selected if it is there,
\* add it otherwise.
Toggle(sel, c) == IF c \in sel THEN sel \ {c} ELSE sel \cup {c}

MenuToggle ==
    /\ Running
    /\ activeModel = "menu"
    /\ Selected' = Toggle(Selected, cursor)
    /\ UNCHANGED <<cursor, activeModel, models, currentModelIdx, installVars, proc>>

\* Decor.Selections(): the choices at the selected indices, in the order the
\* range over the map yields them.
SelectionsOf(sel) == Perms({choices[i + 1] : i \in sel})

\* MainModel.Update, case "n": the index is the last one, so a new install
\* screen is made from m.activeModel.(models.Decor).Selections(), appended,
\* made active, and its Init (the check command) is returned.  The type
\* assertion panics when the active screen is not a Decor.
MainKeyN ==
    /\ Running
    /\ currentModelIdx + 1 > Len(models) - 1
    /\ IF activeModel = "menu"
       THEN /\ selectedLanguages' \in SelectionsOf(Selected)
            /\ installationStatus' = EmptyMap
            /\ currentIndex' = 0
            /\ state' = "checking"
            /\ userChoices' = EmptyMap
            /\ languageProgress' = EmptyMap
            /\ cmds' = {"check"}
            /\ models' = Append(models, "install")
            /\ activeModel' = "install"
            /\ currentModelIdx' = Len(models)
            /\ UNCHANGED <<cursor, Selected, heap, statusMsgs, initMsgs, tickMsgs,
                           runnerVars, proc>>
       ELSE /\ proc' = "panic"
            /\ UNCHANGED mainVars
            /\ UNCHANGED installVars

\* MainModel.Update, case "ctrl+c", "q": return m, tea.Quit
MainKeyQuit ==
    /\ Running
    /\ proc' = "quit"
    /\ UNCHANGED mainVars
    /\ UNCHANGED installVars

\* y or enter, u: passed to the install screen when it is the active one.
MainKeyDefault == activeModel = "install" /\ UpdateKeyDefault

MainKeyUpdate == activeModel = "install" /\ UpdateKeyUpdate

MainNext ==
    \/ MainKeyQuit
    \/ MainKeyN
    \/ MenuUp
    \/ MenuDownFirst
    \/ MenuToggle
    \/ MainKeyDefault
    \/ MainKeyUpdate
    \/ CheckInstalledLanguages
    \/ UpdateInstallationStatusMsg
    \/ InstallSelectedLanguages
    \/ UpdateInitProgressMsg
    \/ UpdateProgressTickMsg
    \/ RunnerStep
    \/ ConcurrentMapWrites

\* The program that main runs.
MainSpec == InitMain /\ [][MainNext]_vars

\* The menu alone, over all its choices, up to the hand-over.
MenuNext ==
    \/ MainKeyQuit
    \/ MainKeyN
    \/ MenuUp
    \/ MenuDown
    \/ MenuToggle

MenuSpec == InitMain /\ [][MenuNext]_vars

\* ================================================================ claims

NonEmpty == Len(selectedLanguages) > 0

\* The runner's call has returned, with an error or without.
Failed(l) == runners[l].pc \in {"returned", "writes", "done"} /\ runners[l].err # NoError

Succeeded(l) == runners[l].pc \in {"returned", "writes", "done"} /\ runners[l].err = NoError

\* ---- C1
\* C1: for a non-empty selection the state starts as checking and every change
\* of the state is one of checking -> prompting, prompting -> installing,
\* installing -> complete: no state is skipped, none is entered again, none
\* is left backward.
C1_LinearStates ==
    /\ (NonEmpty => state = "checking")
    /\ [][(NonEmpty /\ state' # state) =>
            <<state, state'>> \in {<<"checking", "prompting">>,
                                   <<"prompting", "installing">>,
                                   <<"installing", "complete">>}]_vars

\* A run of two languages is in complete, and the tick that is still
\* scheduled will find a tracker that the terminal test does not accept.
C1_Witness ==
    /\ Len(selectedLanguages) = 2
    /\ state = "complete"
    /\ tickMsgs > 0
    /\ \E l \in DOMAIN runners : StillInstalling(Tracker(l))

\* ---- C2
\* C2: in state complete no tracker of a non-skipped language has
\* progress < 1.0 with a current step other than error.
C2_NeverCompleteWhileInstalling ==
    state = "complete" =>
        \A l \in DOMAIN progressTrackers :
            ~(FracLt(Tracker(l).Progress, One) /\ Tracker(l).CurrentStep # "error")

\* ---- C3
\* C3: in state complete the current step of every tracker of a non-skipped
\* language is complete or error.
C3_CompleteMeansTerminalStep ==
    state = "complete" =>
        \A l \in DOMAIN progressTrackers :
            Tracker(l).CurrentStep \in {"complete", "error"}

\* ---- C4
\* C4: a tracker's progress is 1.0 only when its runner's external command
\* has returned without an error.
C4_FullProgressOnlyAfterSuccess ==
    \A l \in DOMAIN runners :
        Tracker(l).Progress = One => Succeeded(l)

\* ---- C5
\* The outcome a line "lang: text" of the complete view reports.
Reported(text) ==
    CASE text = "skip" -> "Skipped"
      [] text = "install" -> "Installed"
      [] text = "update" -> "Updated"
      [] OTHER -> "Failed"

\* The Result the spec derives from the decision and the terminal tracker.
Derived(l) ==
    IF userChoices[l] = "skip" THEN "Skipped"
    ELSE IF Tracker(l).CurrentStep = "error" THEN "Failed"
    ELSE IF userChoices[l] = "install" THEN "Installed" ELSE "Updated"

\* C5: in state complete, for every language that was skipped or whose
\* tracker is terminal, the complete view reports the Result derived from
\* the decision and the tracker: a failed runner is reported Failed.
C5_CompleteReportsResult ==
    state = "complete" =>
        \A l \in DOMAIN userChoices :
            (l \in DOMAIN progressTrackers =>
                Tracker(l).CurrentStep \in {"complete", "error"})
            => Reported(ViewComplete[l]) = Derived(l)

\* ---- C6
\* C6: when one runner has failed, the process does not end by itself while
\* another runner has steps left, and every other runner that is done after
\* a successful command has progress 1.0 and step complete.
C6_FailureIsolation ==
    \A l1, l2 \in DOMAIN runners :
        (l1 # l2 /\ Failed(l1)) =>
            /\ (runners[l2].pc # "done" => proc \notin {"fatal", "panic"})
            /\ (runners[l2].pc = "done" /\ runners[l2].err = NoError =>
                    Tracker(l2).Progress = One /\ Tracker(l2).CurrentStep = "complete")

\* ---- C7
\* C7: under fair scheduling, once every decision is entered (the state is
\* installing) the state becomes complete, and the tracker of every runner
\* whose command succeeded ends with progress 1.0 and step complete, unless
\* the user quits.
C7_EventuallyComplete ==
    /\ [](state = "installing" => <>(state = "complete" \/ proc = "quit"))
    /\ \A l \in Selectable :
          []((l \in DOMAIN runners /\ Succeeded(l)) =>
                <>(proc = "quit" \/
                   (/\ l \in DOMAIN progressTrackers
                    /\ Tracker(l).Progress = One
                    /\ Tracker(l).CurrentStep = "complete")))

\* ---- C8
\* C8: with an empty selection the orchestrator never waits in prompting with
\* nothing in flight, and no input makes it index the empty selection.
C8_EmptySelectionCompletes ==
    selectedLanguages = <<>> =>
        /\ proc # "panic"
        /\ (state = "prompting" => cmds # {} \/ initMsgs # {} \/ tickMsgs > 0)

\* ---- C9
\* The decision the spec gives confirm-default for a status.
ExpectedDefault(status) ==
    CASE ~status.Installed -> "install"
      [] status.Installed /\ status.Version # status.LatestVersion -> "update"
      [] status.Installed /\ status.Version = status.LatestVersion -> "skip"

Decided == {selectedLanguages[i] : i \in 1..currentIndex}

\* C10: in prompting the decisions are exactly those of the languages before
\* the cursor; a decision key handled in prompting records a decision for
\* the language at the cursor only, advances the cursor by 1, and changes
\* the state to installing exactly when the cursor has passed the last index.
C10_DecisionsInOrder ==
    /\ [](state = "prompting" => DOMAIN userChoices = Decided)
    /\ [][((UpdateKeyDefault \/ UpdateKeySkip \/ UpdateKeyUpdate) /\ state = "prompting") =>
            /\ InRange
            /\ DOMAIN userChoices' = DOMAIN userChoices \cup {Current}
            /\ \A l \in DOMAIN userChoices : userChoices'[l] = userChoices[l]
            /\ currentIndex' = currentIndex + 1
            /\ (state' = "installing") = (currentIndex' >= Len(selectedLanguages))]_vars

\* ---- C11
\* The selected languages whose recorded decision is not skip.
DecidedNotSkip ==
    {l \in Range(selectedLanguages) : l \in DOMAIN userChoices /\ userChoices[l] # "skip"}

\* C11: in installing and in complete every selected language has one
\* decision (skip, install or update) and nothing else has one; every
\* InitProgressMsg holds one tracker of its own for each selected language
\* whose decision is not skip and none for any other language; once it is
\* delivered the model's trackers are those.
C11_DecisionsAndTrackers ==
    state \in {"installing", "complete"} =>
        /\ DOMAIN userChoices = Range(selectedLanguages)
        /\ \A l \in DOMAIN userChoices : userChoices[l] \in {"skip", "install", "update"}
        /\ \A msg \in initMsgs :
              /\ DOMAIN msg.Trackers = DecidedNotSkip
              /\ \A l1, l2 \in DOMAIN msg.Trackers :
                    l1 # l2 => msg.Trackers[l1] # msg.Trackers[l2]
              /\ \A l \in DOMAIN msg.Trackers : heap[msg.Trackers[l]].Language = l
        /\ ("install" \notin cmds /\ initMsgs = {} =>
              /\ languageProgress = progressTrackers
              /\ DOMAIN languageProgress = DecidedNotSkip)

\* An InitProgressMsg is in flight for a selection of two languages, one
\* skipped and one not.
C11_Witness ==
    /\ state = "installing"
    /\ initMsgs # {}
    /\ \E l1, l2 \in Range(selectedLanguages) :
          userChoices[l1] = "skip" /\ userChoices[l2] # "skip"

\* ---- C12
\* C12: the install command is pending only in installing or complete and
\* only while nothing has been launched (no tracker made, no runner started,
\* no InitProgressMsg sent), so it runs at most once; it sends one
\* InitProgressMsg; the runners it launches are runners of selected
\* languages with a decision other than skip, one for each.
C12_OneRunnerPerItem ==
    /\ ("install" \in cmds =>
          /\ state \in {"installing", "complete"}
          /\ runners = EmptyMap
          /\ progressTrackers = EmptyMap
          /\ initMsgs = {})
    /\ Cardinality(initMsgs) <= 1
    /\ DOMAIN runners \subseteq DecidedNotSkip
    /\ DOMAIN runners = DOMAIN progressTrackers

\* Two runners are in flight, one for each of two languages, and the install
\* command is no longer pending.
C12_Witness ==
    /\ "install" \notin cmds
    /\ Cardinality(DOMAIN runners) = 2
    /\ \A l \in DOMAIN runners : runners[l].pc \notin {"done"}

\* ---- C13
\* C13: in installing every tracker of the model's map is one that the
\* install command made (and its runner writes): neither Update nor View
\* has put a tracker of its own there.
C13_TrackersOnlyFromInstall ==
    state = "installing" =>
        \A l \in DOMAIN languageProgress : languageProgress[l][1] = "cmd"

\* ---- C14
\* C14: whenever a reader looks at a tracker it finds a whole triple: a
\* current step of error comes with its error message.
C14_NoTornTriple ==
    \A l \in DOMAIN progressTrackers :
        Tracker(l).CurrentStep = "error" => Tracker(l).ErrorMessage # NoError

\* ---- C15
\* The runner of l is at its write to the results map.
WritingResults(l) == runners[l].pc = "returned"

\* C15: no variable other than the trackers is written by two runner tasks:
\* the results map never holds the entries of two runners, no two runners
\* are at a write to it together, and the runtime never ends the process
\* for concurrent map writes.
C15_RunnersShareOnlyTrackers ==
    /\ Cardinality(DOMAIN results \cap DOMAIN runners) <= 1
    /\ \A l1, l2 \in DOMAIN runners :
          l1 # l2 => ~(WritingResults(l1) /\ WritingResults(l2))
    /\ proc # "fatal"

\* ---- C16
\* The terminal test of the poll: progress = 1.0 or current step error.
Terminal(t) == t.Progress = One \/ t.CurrentStep = "error"

\* C16: a step taken when a tracker satisfies the terminal test leaves that
\* tracker's progress and current step as they are.
C16_TerminalIsStable ==
    [][\A l \in DOMAIN progressTrackers :
          Terminal(Tracker(l)) =>
              /\ heap'[progressTrackers[l]].Progress = Tracker(l).Progress
              /\ heap'[progressTrackers[l]].CurrentStep = Tracker(l).CurrentStep]_vars

\* ---- C17
\* A tick that leaves the state, the cursor, the decisions, the trackers and
\* the pending commands and messages alone and schedules no tick: all it
\* does is consume itself.
QuietTick ==
    /\ UpdateProgressTickMsg
    /\ UNCHANGED <<modelVars, languageProgress, heap, cmds, statusMsgs, initMsgs>>
    /\ tickMsgs' = tickMsgs - 1

\* C17: whenever a tick is due in complete and every tracker of the model
\* passes the terminal test, handling the tick is possible and every way of
\* handling it changes nothing and schedules no tick.
C17_PollIdempotent ==
    (/\ Running
     /\ state = "complete"
     /\ tickMsgs > 0
     /\ \A l \in DOMAIN languageProgress : Terminal(heap[languageProgress[l]])) =>
        /\ ENABLED QuietTick
        /\ ~ENABLED (UpdateProgressTickMsg /\ ~QuietTick)

\* Runners were launched, the trackers were delivered, and both chains of
\* ticks have ended in complete: the second of them ended with a tick
\* handled in complete on trackers that are all terminal.
C17_Witness ==
    /\ state = "complete"
    /\ DOMAIN runners # {}
    /\ "install" \notin cmds
    /\ initMsgs = {}
    /\ tickMsgs = 0
    /\ AllComplete(languageProgress, heap)

\* ---- C18
\* C18: as long as the process runs, in whatever state and whatever the
\* runners are doing, a quit key can be handled at once, and handling it
\* quits and leaves the orchestrator's fields as they are.
C18_QuitAnywhere ==
    Running =>
        ENABLED (/\ UpdateKeyQuit
                 /\ proc' = "quit"
                 /\ UNCHANGED <<modelVars, languageProgress>>)

\* The process has quit in installing with a runner that had not returned.
C18_Witness ==
    /\ proc = "quit"
    /\ state = "installing"
    /\ \E l \in DOMAIN runners : runners[l].pc \in {"loop", "final", "exec"}

\* ---- C19
\* C19: a step from installing or complete leaves every recorded decision as
\* it is, and a y/enter, n or u handled in a state other than prompting
\* leaves the state, the cursor, the decisions and the trackers as they are.
C19_DecisionsFrozen ==
    [][/\ (state \in {"installing", "complete"} => userChoices' = userChoices)
       /\ ((UpdateKeyDefault \/ UpdateKeySkip \/ UpdateKeyUpdate) /\ state # "prompting" =>
              UNCHANGED <<state, currentIndex, userChoices, languageProgress, heap>>)]_vars

\* The decisions are recorded, a runner is at work and the state is
\* installing: the decision keys are handled here and change nothing.
C19_Witness ==
    /\ state = "installing"
    /\ Cardinality(DOMAIN userChoices) = 2
    /\ \E l \in DOMAIN runners : runners[l].pc = "exec"

\* ---- C20
\* The selected languages that no dispatcher has a case for and whose
\* decision is install or update.
UnsupportedItems ==
    {l \in Range(selectedLanguages) :
        /\ ToLower(l) \notin Supported
        /\ MapGetStr(userChoices, l) \in {"install", "update"}}

\* C20: when such a language has a runner, the runner ends with current
\* step error and the message "unsupported language: <name>"; a runner of
\* another language that is done after a successful command has progress
\* 1.0 and step complete; and the process does not end by itself before the
\* state is complete.
C20_UnsupportedIsolated ==
    \A u \in UnsupportedItems \cap DOMAIN runners :
        /\ (runners[u].pc = "done" =>
              /\ Tracker(u).CurrentStep = "error"
              /\ Tracker(u).ErrorMessage = Unsupported(u))
        /\ \A l \in DOMAIN runners \ {u} :
              (runners[l].pc = "done" /\ runners[l].err = NoError) =>
                  Tracker(l).Progress = One /\ Tracker(l).CurrentStep = "complete"
        /\ (state # "complete" => proc \notin {"fatal", "panic"})

\* ---- C21
\* The status of a language that was not found.
NotFound(st) ==
    /\ ~st.Installed
    /\ st.Version = <<>>
    /\ st.LatestVersion = <<>>
    /\ st.Error = ""

\* A status map as the claim has it: a status for every selected language
\* and no other, a language without a detection command not found, and a
\* language that is not installed with empty versions.
StatusRecorded(status) ==
    /\ DOMAIN status = Range(selectedLanguages)
    /\ \A l \in DOMAIN status :
          /\ status[l].Language = l
          /\ (ToLower(l) \notin Supported => NotFound(status[l]))
          /\ (~status[l].Installed => NotFound(status[l]))

\* C21: whatever the detection command of a selected language does, a
\* failure of it (and a language without a detection command) gives the
\* status not found; every InstallationStatusMsg and, after checking, the
\* model hold a status for every selected language; and a pending
\* InstallationStatusMsg can always be handled and its handling enters
\* prompting.
C21_ProbeFailureIsNormal ==
    /\ \A l \in Range(selectedLanguages) : \A r \in ProbeResults(l) :
          (r.err \/ ToLower(l) \notin Supported) => NotFound(NewStatus(l, r))
    /\ \A msg \in statusMsgs : StatusRecorded(msg.Status)
    /\ (state # "checking" => StatusRecorded(installationStatus))
    /\ (Running /\ statusMsgs # {} =>
          ENABLED (UpdateInstallationStatusMsg /\ state' = "prompting"))
    /\ (state = "checking" /\ cmds = {} /\ statusMsgs = {} => ~Running)

\* The state is prompting with two languages: the detection command of one
\* failed, the other has no detection command.
C21_Witness ==
    /\ state = "prompting"
    /\ \E l1, l2 \in DOMAIN installationStatus :
          /\ ToLower(l1) \in Supported /\ ~installationStatus[l1].Installed
          /\ ToLower(l2) \notin Supported /\ ~installationStatus[l2].Installed

\* ---- C22
\* C22: a y/enter handled in prompting for a language at the cursor that has
\* no status leaves the process running and records install for it.
C22_MissingStatusMeansInstall ==
    [][(/\ UpdateKeyDefault
        /\ state = "prompting"
        /\ InRange
        /\ Current \notin DOMAIN installationStatus) =>
            /\ proc' = "running"
            /\ Current \in DOMAIN userChoices'
            /\ userChoices'[Current] = "install"]_vars

\* ---- C25
\* What the claim has a ProgressUpdateMsg do: progress and step of the
\* tracker the model holds for msg.Language become the message's, no other
\* tracker changes (none at all when the model holds none for it), a tick
\* is scheduled, and the state, the cursor and the decisions stay.
ProgressUpdateApplied(msg) ==
    LET tracked == msg.Language \in DOMAIN languageProgress
        touched == IF tracked THEN {languageProgress[msg.Language]} ELSE {}
    IN  /\ state' = state
        /\ UNCHANGED <<currentIndex, userChoices, languageProgress>>
        /\ tickMsgs' = tickMsgs + 1
        /\ DOMAIN heap' = DOMAIN heap
        /\ \A a \in DOMAIN heap \ touched : heap'[a] = heap[a]
        /\ \A a \in touched :
              /\ heap'[a].Progress = msg.Progress
              /\ heap'[a].CurrentStep = msg.Step
              /\ heap'[a].ErrorMessage = heap[a].ErrorMessage

C23_SkipInRunningProgram ==
    [][(MainKeyN /\ activeModel = "install" /\ state = "prompting" /\ InRange) =>
          /\ proc' = "running"
          /\ Current \in DOMAIN userChoices'
          /\ userChoices'[Current] = "skip"
          /\ currentIndex' = currentIndex + 1
          /\ models' = models
          /\ activeModel' = "install"]_vars

\* ---- C29
\* C29: the cursor of the install screen is always between 0 and the length
\* of the selection, and every y/enter, n or u handled in prompting finds
\* it below the length.
C29_CursorInRange ==
    /\ [](0 <= currentIndex /\ currentIndex <= Len(selectedLanguages))
    /\ [][((UpdateKeyDefault \/ UpdateKeySkip \/ UpdateKeyUpdate)
             /\ state = "prompting") => InRange]_vars

\* ---- C30
\* The indices that are in one of two sets only.
SymDiff(A, B) == (A \ B) \cup (B \ A)

\* A toggle that changes the selection at the cursor's index and nowhere
\* else.
TogglesCursorOnly ==
    /\ MenuToggle
    /\ SymDiff(Selected, Selected') = {cursor}
    /\ cursor' = cursor

\* C30: the menu's cursor is always an index of choices and so is every
\* selected index; on the menu a toggle can be handled and every toggle
\* changes the selection at the cursor's index and nowhere else (so a
\* second toggle there restores the set); and the selection handed to the
\* install screen holds each selected choice once and nothing else.
C30_MenuSelection ==
    /\ cursor \in 0..(Len(choices) - 1)
    /\ Selected \subseteq 0..(Len(choices) - 1)
    /\ (Running /\ activeModel = "menu" =>
          /\ ENABLED TogglesCursorOnly
          /\ ~ENABLED (MenuToggle /\ ~TogglesCursorOnly))
    /\ (activeModel = "install" =>
          /\ NoDup(selectedLanguages)
          /\ Len(selectedLanguages) = Cardinality(Selected)
          /\ Range(selectedLanguages) = {choices[i + 1] : i \in Selected})

\* The install screen was made with the cursor on the last choice from a
\* selection of three choices, handed over in an order that is not the
\* menu's.
C30_Witness ==
    /\ activeModel = "install"
    /\ cursor = Len(choices) - 1
    /\ Selected = {0, 2, 4}
    /\ selectedLanguages = <<"Java", "Go", "Rust">>

\* ---- C24
\* A tick that changes nothing: it leaves the state and is scheduled again.
TickGoesOn ==
    /\ UpdateProgressTickMsg
    /\ state' = state
    /\ tickMsgs' = tickMsgs

\* C24: in installing, while the tracker of some runner does not pass the
\* terminal test, a tick is pending; and a tick handled in installing that
\* finds a tracker of the model not passing it leaves the state installing
\* and is followed by another tick.
C24_PollingGoesOn ==
    /\ (state = "installing"
          /\ (\E l \in DOMAIN progressTrackers : ~Terminal(Tracker(l)))
        => tickMsgs >= 1)
    /\ (Running /\ state = "installing" /\ tickMsgs > 0
          /\ (\E l \in DOMAIN languageProgress : ~Terminal(heap[languageProgress[l]]))
        => /\ ENABLED TickGoesOn
           /\ ~ENABLED (UpdateProgressTickMsg /\ ~TickGoesOn))

\* Two runners are at work on trackers that the model holds, the second
\* chain of ticks has started, and neither tracker is terminal.
C24_Witness ==
    /\ state = "installing"
    /\ initMsgs = {}
    /\ tickMsgs = 2
    /\ Cardinality(DOMAIN runners) = 2
    /\ \A l \in DOMAIN runners :
          /\ runners[l].pc = "loop"
          /\ runners[l].i = 2
          /\ languageProgress[l] = progressTrackers[l]
          /\ ~Terminal(Tracker(l))

\* ---- C26
\* C26: a runner runs a function other than the one its decision names only
\* when it is go's update runner, and then it runs go's install function;
\* go's update runner starts the install function after its own last step
\* (progress 1.0, step "Installing update..."), on the same tracker, and
\* returns only from it; the update runner of any other language shows
\* only its own steps and returns from its own function.
C26_OnlyGoDelegates ==
    \A l \in DOMAIN runners :
        LET r == runners[l]
            returned == r.pc \in {"returned", "writes", "done"}
        IN  /\ (r.fn # r.choiceType =>
                  ToLower(l) = "go" /\ r.choiceType = "update" /\ r.fn = "install")
            /\ (ToLower(l) = "go" /\ r.choiceType = "update" /\ returned =>
                  r.fn = "install")
            /\ (r.choiceType = "update" /\ r.fn = "install" /\ r.pc = "loop" /\ r.i = 0 =>
                  /\ Tracker(l).Progress = One
                  /\ Tracker(l).CurrentStep = UpdateSteps("go")[Len(UpdateSteps("go"))])
            /\ (r.choiceType = "update" /\ r.fn = "install" /\ r.pc = "loop" /\ r.i > 0 =>
                  Tracker(l).CurrentStep = InstallSteps("go")[r.i])
            /\ (ToLower(l) # "go" /\ r.choiceType = "update" =>
                  /\ r.fn = "update"
                  /\ (r.pc \in {"loop", "final", "exec"} /\ r.i > 0 =>
                        Tracker(l).CurrentStep \in Range(UpdateSteps(ToLower(l)))))

\* Go's update runner is done after the install function it delegated to;
\* its tracker is the one the install command made for it.
C26_Witness ==
    \E l \in DOMAIN runners :
        /\ ToLower(l) = "go"
        /\ runners[l].choiceType = "update"
        /\ runners[l].fn = "install"
        /\ runners[l].pc = "done"
        /\ runners[l].err = NoError
        /\ Tracker(l).CurrentStep = "complete"

\* ---- C27
\* C27: when some decision is not skip, the state is complete only after
\* the install command has run and its InitProgressMsg has been delivered.
C27_NoPrematureComplete ==
    (state = "complete" /\ DecidedNotSkip # {}) =>
        /\ "install" \notin cmds
        /\ initMsgs = {}
        /\ \A l \in DecidedNotSkip : l \in DOMAIN languageProgress

\* The state is installing, the runner is done, the InitProgressMsg is
\* still in flight, the model holds a placeholder tracker, and the only
\* tick there is yet has been scheduled with the transition.
C27_Witness ==
    /\ state = "installing"
    /\ initMsgs # {}
    /\ tickMsgs = 1
    /\ \E l \in DOMAIN runners :
          /\ runners[l].pc = "done"
          /\ languageProgress[l] = <<"view", l>>

\* ---- C28
\* Equality of two fractions.
FracEq(a, b) == a[1] * b[2] = b[1] * a[2]

\* C28: the progress of every runner's tracker is within [0, 1]; when the
\* runner has written before step i of n (counted from 0) it is i/n; and no
\* step lowers it.
C28_ProgressMonotone ==
    /\ [](\A l \in DOMAIN progressTrackers :
            /\ ~FracLt(Tracker(l).Progress, Zero)
            /\ ~FracLt(One, Tracker(l).Progress)
            /\ (runners[l].pc \in {"loop", "final"} /\ runners[l].i > 0 =>
                  FracEq(Tracker(l).Progress, Frac(runners[l].i - 1, TotalSteps))))
    /\ [][\A l \in DOMAIN progressTrackers :
             ~FracLt(heap'[progressTrackers[l]].Progress, Tracker(l).Progress)]_vars

====
